---- MODULE Spec2Model ----
(***************************************************************************)
(* Selenium Login Service: the /login endpoint (app/main.py), the driver   *)
(* factory and cookie serializer (app/selenium_client.py) and the site     *)
(* login providers (app/logins/flippa.py, app/logins/smergers.py).         *)
(*                                                                         *)
(* The specifications share the variables:                                 *)
(*   Spec          the endpoint serving NumReq requests (registered        *)
(*                 provider: FlippaLogin)                                  *)
(*   SpecLogin     one direct call provider.login(driver, u, p) of either  *)
(*                 provider class (SmergersLogin is not registered, so the *)
(*                 endpoint never reaches it)                              *)
(*   SpecLoginLive SpecLogin with the call run to its end                  *)
(*   SpecHeader    cookies_to_header on bounded cookie sequences, followed *)
(*                 by a parse of the header and a second serialization     *)
(*   SpecFind      one _find_visible_in call on a container                *)
(***************************************************************************)
EXTENDS Integers, Sequences, FiniteSets, TLC

VARIABLES
    \* ---- the /login endpoint, one entry per request (Spec)
    pc,         \* position of the request in login() / provider.login()
    site,       \* req.site
    creates,    \* calls of create_driver() made for the request
    drv,        \* the driver create_driver returned to the request (0: none)
    outcome,    \* what provider.login produced: cookies, or the error it raised
    verif,      \* how the provider's verification wait ended
    cookieHdr,  \* cookie_header
    quitRaised, \* driver.quit() raised in the finally block
    resp,       \* the HTTP response
    loads,      \* driver.get calls the provider made for the request
    used,       \* the browsers the request called a driver method on
    \* ---- browser sessions
    nextId,     \* id of the next browser webdriver.Chrome starts
    started,    \* browsers started so far
    quits,      \* quit() calls per browser
    jar,        \* the cookies of each browser session
    \* ---- one SmergersLogin.login call and its browser (SpecLogin)
    spc,        \* position in SmergersLogin.login
    loc,        \* the page the browser is on: what its URL and title contain
    modal,      \* a displayed modal/dialog element exists
    pwdShown,   \* a displayed and enabled password input exists
    sjar,       \* the cookies of the session
    gets,       \* driver.get calls made by _safe_get
    seenAtStart,\* what the first _has_visible_password probe returned
    waited,     \* _wait_any_present was called
    tabCalls,   \* _click_login_tab calls made
    clicked,    \* the local `clicked` of _ensure_login_tab
    clicks,     \* the clicks that landed, in order
    probes,     \* _find_visible_in calls made (field location)
    pwdAtStart, \* a password input was shown when _ensure_login_tab started
    onGoogle,   \* the browser was on accounts.google.com before field location
    sverif,     \* how _wait_logged_in ended
    sresult,    \* what login returned or raised
    failedIn,   \* the function the exception that left login was raised in
    elapsed,    \* the time the running polling loop has used, in sleeps
    log,        \* the milestones of the attempt, in order
    \* ---- cookies_to_header (SpecHeader)
    hpc,        \* position: "idle" | "input" | "serialized" | "parsed" | "reserialized"
    cookies,    \* the input cookie sequence
    parts,      \* the list `parts` built by the loop
    header,     \* the returned string
    parsed,     \* the header parsed back into cookies
    header2,    \* the second serialization
    \* ---- one _find_visible_in call on its own (SpecFind)
    fpc,        \* position: "idle" | "poll" | "returned" | "raised" | "timeout"
    fclock,     \* the time the loop has used, in sleeps
    fscan,      \* what the container held in the round that ended the call
    fret        \* the end of the call: the element returned, or how it raised

svars == <<spc, loc, modal, pwdShown, sjar, gets, seenAtStart, waited, tabCalls,
           clicked, clicks, probes, pwdAtStart, onGoogle, sverif, sresult,
           failedIn, elapsed, log>>

fvars == <<fpc, fclock, fscan, fret>>

hvars == <<hpc, cookies, parts, header, parsed, header2>>

evars == <<pc, site, creates, drv, outcome, verif, cookieHdr, quitRaised, resp,
           loads, used, nextId, started, quits, jar>>

vars == <<pc, site, creates, drv, outcome, verif, cookieHdr, quitRaised, resp,
          loads, used, nextId, started, quits, jar,
          spc, loc, modal, pwdShown, sjar, gets, seenAtStart, waited, tabCalls,
          clicked, clicks, probes, pwdAtStart, onGoogle, sverif, sresult,
          failedIn, elapsed, log,
          hpc, cookies, parts, header, parsed, header2,
          fpc, fclock, fscan, fret>>

-----------------------------------------------------------------------------
(* Strings are sequences of characters; None is Python's None.              *)

None == <<"None">>

Separator == <<";", " ">>

MaxCookies == 2

\* Names and values the cookie sequences are built from.
NameSamples ==
    { None, <<>>, <<"a">>, <<"=">>, <<" ">>, <<";", " ">> }

ValueSamples ==
    { None, <<>>, <<"x">>, <<";">>, <<"x", "=", "y">>, <<";", " ">>,
      <<"x", ";", " ", "y", "=", "z">> }

CookieSamples == [name : NameSamples, value : ValueSamples]

CookieSeqs == UNION { [1..n -> CookieSamples] : n \in 0..MaxCookies }

\* `name is not None and value is not None`, and the truthiness slip
\* `if name and value`, which also drops empty strings.
Keep_truthy(c) == c.name # None /\ c.value # None /\ c.name # <<>> /\ c.value # <<>>

Keep(c) == c.name # None /\ c.value # None

\* f"{name}={value}", and the pair written without its "=".
PairStr_noeq(c) == c.name \o c.value

PairStr(c) == c.name \o <<"=">> \o c.value

\* The loop of cookies_to_header: the list `parts`.
RECURSIVE BuildParts(_)
BuildParts(cs) ==
    IF cs = <<>> THEN <<>>
    ELSE IF Keep(Head(cs)) THEN <<PairStr(Head(cs))>> \o BuildParts(Tail(cs))
         ELSE BuildParts(Tail(cs))

\* sep.join(ps)
RECURSIVE Join(_, _)
Join(ps, sep) ==
    IF ps = <<>> THEN <<>>
    ELSE IF Len(ps) = 1 THEN ps[1]
         ELSE ps[1] \o sep \o Join(Tail(ps), sep)

cookies_to_header(cs) == Join(BuildParts(cs), Separator)

\* str.find: the least index at which sep occurs in s, 0 when it does not.
FindSub(s, sep) ==
    LET hits == { i \in 1..(Len(s) - Len(sep) + 1) :
                    SubSeq(s, i, i + Len(sep) - 1) = sep }
    IN  IF hits = {} THEN 0 ELSE CHOOSE i \in hits : \A j \in hits : i <= j

\* str.split(sep): leftmost, non-overlapping; "" splits into [""].
RECURSIVE SplitOn(_, _)
SplitOn(s, sep) ==
    LET i == FindSub(s, sep)
    IN  IF i = 0 THEN <<s>>
        ELSE <<SubSeq(s, 1, i - 1)>> \o SplitOn(SubSeq(s, i + Len(sep), Len(s)), sep)

\* piece.split("=", 1): a piece without "=" has a name and no value.
SplitPair(p) ==
    LET i == FindSub(p, <<"=">>)
    IN  IF i = 0 THEN [name |-> p, value |-> None]
        ELSE [name |-> SubSeq(p, 1, i - 1), value |-> SubSeq(p, i + 1, Len(p))]

ParseHeader(h) ==
    LET ps == SplitOn(h, Separator)
    IN  [k \in 1..Len(ps) |-> SplitPair(ps[k])]

-----------------------------------------------------------------------------
(* What a login call produces                                               *)

NoOutcome == [kind |-> "none"]

Returned(cs) == [kind |-> "cookies", cookies |-> cs]

\* An exception: its class, what its message reports, and whether the message
\* embeds the current URL and the page title.
Error(class, what, url, title) ==
    [kind |-> "error", class |-> class, what |-> what, url |-> url, title |-> title]

\* An exception raised by a driver call and not wrapped: its message is the
\* driver's, the code adds nothing to it.
DriverError(class) == Error(class, "driver", FALSE, FALSE)

-----------------------------------------------------------------------------
(* The page SmergersLogin drives                                            *)

\* A page: which of the substrings the code looks for its URL and its title
\* contain ("/login", "smergers.com", "accounts.google.com"; "google accounts").
Page(name, login, smergers, google, gtitle) ==
    [name |-> name, login |-> login, smergers |-> smergers, google |-> google,
     gtitle |-> gtitle]

Blank == Page("about:blank", FALSE, FALSE, FALSE, FALSE)

SmergersLoginPage == Page("https://www.smergers.com/login/", TRUE, TRUE, FALSE, FALSE)

SmergersHome == Page("https://www.smergers.com/", FALSE, TRUE, FALSE, FALSE)

\* accounts.google.com/o/oauth2/auth?redirect_uri=https://www.smergers.com/login/
GoogleOAuth == Page("https://accounts.google.com/o/oauth2/auth?redirect_uri=smergers.com/login/",
                    TRUE, TRUE, TRUE, FALSE)

GoogleSignIn == Page("https://accounts.google.com/signin", FALSE, FALSE, TRUE, TRUE)

Elsewhere == Page("https://example.org/", FALSE, FALSE, FALSE, FALSE)

Locations == {SmergersLoginPage, SmergersHome, GoogleOAuth, GoogleSignIn, Elsewhere}

\* Element texts are sequences of words and blanks.
Texts ==
    { <<"LOGIN">>,
      <<" ", "Login", " ">>,
      <<"Login", " ", "with", " ", "Google">>,
      <<"Login", " ", "now">>,
      <<"Social", " ", "Login">>,
      <<"REGISTER">> }

MaxEls == 2

Element == [text : Texts, shown : BOOLEAN]

ElSeqs == UNION { [1..n -> Element] : n \in 0..MaxEls }

\* str.lower() on one word
LowerWord(w) ==
    CASE w = "LOGIN" -> "login"
      [] w = "Login" -> "login"
      [] w = "Google" -> "google"
      [] w = "Social" -> "social"
      [] w = "REGISTER" -> "register"
      [] OTHER -> w

Lower(t) == [i \in 1..Len(t) |-> LowerWord(t[i])]

\* str.strip()
RECURSIVE LStrip(_)
LStrip(t) == IF t # <<>> /\ Head(t) = " " THEN LStrip(Tail(t)) ELSE t

RECURSIVE RStrip(_)
RStrip(t) == IF t # <<>> /\ t[Len(t)] = " " THEN RStrip(SubSeq(t, 1, Len(t) - 1)) ELSE t

Strip(t) == RStrip(LStrip(t))

\* (el.text or "").strip().lower()
NormText(t) == Lower(Strip(t))

\* `sub in txt`
Contains(t, sub) == FindSub(t, sub) # 0

StartsWith(t, pre) == Len(t) >= Len(pre) /\ SubSeq(t, 1, Len(pre)) = pre

EndsWith(t, suf) == Len(t) >= Len(suf) /\ SubSeq(t, Len(t) - Len(suf) + 1, Len(t)) = suf

\* LOGIN_TAB_XPATHS: the lower-cased, space-normalized text contains 'login'
MatchesLoginXPath(el) == Contains(Lower(el.text), <<"login">>)

\* is_login_tab, smergers.py 166-176
is_login_tab(el) ==
    /\ el.shown
    /\ ~Contains(NormText(el.text), <<"login", " ", "with">>)
    /\ \/ NormText(el.text) = <<"login">>
       \/ EndsWith(NormText(el.text), <<" ", "login">>)
       \/ StartsWith(NormText(el.text), <<"login", " ">>)

\* The fallback of _click_login_tab, 188-193: txt == "login" and shown
is_exact_login(el) == NormText(el.text) = <<"login">> /\ el.shown

SmergersIdle ==
    /\ spc = "idle"
    /\ loc = Blank
    /\ modal = FALSE
    /\ pwdShown = FALSE
    /\ sjar = <<>>
    /\ gets = 0
    /\ seenAtStart = FALSE
    /\ waited = FALSE
    /\ tabCalls = 0
    /\ clicked = FALSE
    /\ clicks = <<>>
    /\ probes = 0
    /\ pwdAtStart = FALSE
    /\ onGoogle = FALSE
    /\ sverif = "none"
    /\ sresult = NoOutcome
    /\ failedIn = "none"
    /\ elapsed = 0
    /\ log = <<>>

-----------------------------------------------------------------------------
(* _find_visible_in: the scan of one polling round                          *)

\* The selectors of a field in priority order: the head of EMAIL_SELECTORS.
Selectors == << "input[type='email']", "input[name='email']" >>

\* What el.is_displayed() and el.is_enabled() answer for an element: displayed
\* is "true", "false", "stale" (StaleElementReferenceException) or "error"
\* (another exception of the driver).
ElSamples ==
    { [displayed |-> "true", enabled |-> TRUE],
      [displayed |-> "true", enabled |-> FALSE],
      [displayed |-> "false", enabled |-> TRUE],
      [displayed |-> "stale", enabled |-> TRUE],
      [displayed |-> "error", enabled |-> TRUE] }

MaxHits == 2

Hits == UNION { [1..n -> ElSamples] : n \in 0..MaxHits }

\* container.find_elements(By.CSS_SELECTOR, sel): it raises, or it returns the
\* elements the selector matches, in document order.
QueryResults ==
    { [raised |-> TRUE, els |-> <<>>] } \cup { [raised |-> FALSE, els |-> h] : h \in Hits }

\* What the container answers to each selector in one round.
Contents == [1..Len(Selectors) -> QueryResults]

\* `el.is_displayed() and el.is_enabled()`, 242, and the test without
\* is_enabled().
Usable_displayed(el) == el.displayed = "true"

Usable(el) == el.displayed = "true" /\ el.enabled

\* 240-245: the elements of one selector in order; a stale element is skipped,
\* another exception of is_displayed() leaves the function.
RECURSIVE ScanEls(_, _, _)
ScanEls(els, s, i) ==
    IF i > Len(els) THEN [kind |-> "none"]
    ELSE IF els[i].displayed = "error" THEN [kind |-> "raise"]
    ELSE IF els[i].displayed = "stale" THEN ScanEls(els, s, i + 1)
    ELSE IF Usable(els[i]) THEN [kind |-> "found", sel |-> s, idx |-> i]
    ELSE ScanEls(els, s, i + 1)

\* 235-245: the selectors in order; a selector whose query raises is skipped.
RECURSIVE ScanSels(_, _)
ScanSels(c, s) ==
    IF s > Len(c) THEN [kind |-> "none"]
    ELSE IF c[s].raised THEN ScanSels(c, s + 1)
    ELSE LET r == ScanEls(c[s].els, s, 1)
         IN  IF r.kind = "none" THEN ScanSels(c, s + 1) ELSE r

\* The ways a round can end.
RoundKinds == { ScanSels(c, 1).kind : c \in Contents }

Pending == [kind |-> "pending"]

FindIdle ==
    /\ fpc = "idle"
    /\ fclock = 0
    /\ fscan = <<>>
    /\ fret = Pending

-----------------------------------------------------------------------------
(* The endpoint and the browser sessions                                    *)

NumReq == 2

Reqs == 1..NumReq

\* Every request starts at most one browser.
DriverIds == 1..NumReq

\* Site identifiers a request may carry: the registered one, the key of a
\* provider class that is not registered, and one no provider has.
Sites == {"flippa", "smergers", "unknown"}

\* The keys of LOGIN_PROVIDERS, and the registry with SmergersLogin added.
LOGIN_PROVIDERS_with_smergers == {"flippa", "smergers"}

LOGIN_PROVIDERS == {"flippa"}

NoResp == [status |-> 0]

\* The session cookie the site sets in browser d.
IdChar == <<"1", "2", "3", "4", "5">>

SessionCookie(d) == [name |-> <<"s">>, value |-> <<IdChar[d]>>]

EndpointIdle ==
    /\ pc = [r \in Reqs |-> "idle"]
    /\ site = [r \in Reqs |-> "flippa"]
    /\ creates = [r \in Reqs |-> 0]
    /\ drv = [r \in Reqs |-> 0]
    /\ outcome = [r \in Reqs |-> NoOutcome]
    /\ verif = [r \in Reqs |-> "none"]
    /\ cookieHdr = [r \in Reqs |-> <<>>]
    /\ quitRaised = [r \in Reqs |-> FALSE]
    /\ resp = [r \in Reqs |-> NoResp]
    /\ loads = [r \in Reqs |-> 0]
    /\ used = [r \in Reqs |-> {}]
    /\ nextId = 1
    /\ started = {}
    /\ quits = [d \in DriverIds |-> 0]
    /\ jar = [d \in DriverIds |-> <<>>]

HeaderIdle ==
    /\ hpc = "idle"
    /\ cookies = <<>>
    /\ parts = <<>>
    /\ header = <<>>
    /\ parsed = <<>>
    /\ header2 = <<>>

Init ==
    /\ pc = [r \in Reqs |-> "recv"]
    /\ site \in [Reqs -> Sites]
    /\ creates = [r \in Reqs |-> 0]
    /\ drv = [r \in Reqs |-> 0]
    /\ outcome = [r \in Reqs |-> NoOutcome]
    /\ verif = [r \in Reqs |-> "none"]
    /\ cookieHdr = [r \in Reqs |-> <<>>]
    /\ quitRaised = [r \in Reqs |-> FALSE]
    /\ resp = [r \in Reqs |-> NoResp]
    /\ loads = [r \in Reqs |-> 0]
    /\ used = [r \in Reqs |-> {}]
    /\ nextId = 1
    /\ started = {}
    /\ quits = [d \in DriverIds |-> 0]
    /\ jar = [d \in DriverIds |-> <<>>]
    /\ SmergersIdle
    /\ HeaderIdle
    /\ FindIdle

\* main.py 32-35: an unknown site is answered 400 before anything is created.
CheckSite(r) ==
    /\ pc[r] = "recv"
    /\ IF site[r] \notin LOGIN_PROVIDERS
       THEN /\ resp' = [resp EXCEPT ![r] = [status |-> 400, err |-> DriverError("HTTPException")]]
            /\ pc' = [pc EXCEPT ![r] = "done"]
       ELSE /\ pc' = [pc EXCEPT ![r] = "create"]
            /\ UNCHANGED resp
    /\ UNCHANGED <<loads, used, site, creates, drv, outcome, verif, cookieHdr, quitRaised, nextId, started, quits, jar>>
    /\ UNCHANGED <<svars, hvars, fvars>>

\* create_driver(): webdriver.Chrome(...) starts a browser or raises;
\* set_page_load_timeout(60) then returns or raises. Only a driver that is
\* returned reaches the caller's try block.
CreateDriver(r) ==
    /\ pc[r] = "create"
    /\ \/ \* webdriver.Chrome raises: no browser was started
          /\ resp' = [resp EXCEPT ![r] = [status |-> 500, err |-> DriverError("WebDriverException")]]
          /\ pc' = [pc EXCEPT ![r] = "done"]
          /\ UNCHANGED <<drv, nextId, started>>
       \/ \* the browser starts and set_page_load_timeout raises
          /\ started' = started \cup {nextId}
          /\ nextId' = nextId + 1
          /\ resp' = [resp EXCEPT ![r] = [status |-> 500, err |-> DriverError("WebDriverException")]]
          /\ pc' = [pc EXCEPT ![r] = "done"]
          /\ UNCHANGED drv
       \/ \* the driver is returned
          /\ started' = started \cup {nextId}
          /\ nextId' = nextId + 1
          /\ drv' = [drv EXCEPT ![r] = nextId]
          /\ pc' = [pc EXCEPT ![r] = "fl_get"]
          /\ UNCHANGED resp
    /\ creates' = [creates EXCEPT ![r] = @ + 1]
    /\ UNCHANGED <<loads, used, site, outcome, verif, cookieHdr, quitRaised, quits, jar>>
    /\ UNCHANGED <<svars, hvars, fvars>>

-----------------------------------------------------------------------------
(* FlippaLogin.login (app/logins/flippa.py)                                 *)

\* main.py 37-39: `driver` is a local of login(), handed to provider.login;
\* the variant keeps it in a module-level name, which holds the browser
\* started last.
DriverOf_global(r) == nextId - 1

DriverOf(r) == drv[r]

\* One driver call of the provider: it returns, or it raises and the
\* exception leaves login() unwrapped.
FlippaCall(r, from, to, class) ==
    /\ pc[r] = from
    /\ \/ /\ pc' = [pc EXCEPT ![r] = to]
          /\ UNCHANGED outcome
       \/ /\ pc' = [pc EXCEPT ![r] = "raised"]
          /\ outcome' = [outcome EXCEPT ![r] = DriverError(class)]
    /\ used' = [used EXCEPT ![r] = @ \cup {DriverOf(r)}]
    /\ UNCHANGED <<loads, site, creates, drv, verif, cookieHdr, quitRaised, resp, nextId, started, quits, jar>>
    /\ UNCHANGED <<svars, hvars, fvars>>

\* 28: driver.get("https://flippa.com/login"), called once: an exception it
\* raises leaves login().
FlippaGet(r) ==
    /\ pc[r] = "fl_get"
    /\ loads' = [loads EXCEPT ![r] = @ + 1]
    /\ \/ /\ pc' = [pc EXCEPT ![r] = "fl_find_email"]
          /\ UNCHANGED outcome
       \/ /\ pc' = [pc EXCEPT ![r] = "raised"]
          /\ outcome' = [outcome EXCEPT ![r] = DriverError("WebDriverException")]
    /\ used' = [used EXCEPT ![r] = @ \cup {DriverOf(r)}]
    /\ UNCHANGED <<site, creates, drv, verif, cookieHdr, quitRaised, resp, nextId, started, quits, jar>>
    /\ UNCHANGED <<svars, hvars, fvars>>

\* 36-37: find_element raises NoSuchElementException at once when nothing matches
FlippaFindEmail(r) == FlippaCall(r, "fl_find_email", "fl_find_pass", "NoSuchElementException")

FlippaFindPassword(r) == FlippaCall(r, "fl_find_pass", "fl_type_email", "NoSuchElementException")

\* 39-42: clear() and send_keys() on each field
FlippaTypeEmail(r) == FlippaCall(r, "fl_type_email", "fl_type_pass", "ElementNotInteractableException")

FlippaTypePassword(r) == FlippaCall(r, "fl_type_pass", "fl_find_submit", "ElementNotInteractableException")

\* 46: the submit button
FlippaFindSubmit(r) == FlippaCall(r, "fl_find_submit", "fl_click", "NoSuchElementException")

\* 47: login_button.click(); the site may set its session cookie
FlippaClick(r) ==
    /\ pc[r] = "fl_click"
    /\ \/ /\ pc' = [pc EXCEPT ![r] = "fl_wait"]
          /\ \E cs \in {<<>>, <<SessionCookie(DriverOf(r))>>} :
                jar' = [jar EXCEPT ![DriverOf(r)] = cs]
          /\ UNCHANGED outcome
       \/ /\ pc' = [pc EXCEPT ![r] = "raised"]
          /\ outcome' = [outcome EXCEPT ![r] = DriverError("ElementClickInterceptedException")]
          /\ UNCHANGED jar
    /\ used' = [used EXCEPT ![r] = @ \cup {DriverOf(r)}]
    /\ UNCHANGED <<loads, site, creates, drv, verif, cookieHdr, quitRaised, resp, nextId, started, quits>>
    /\ UNCHANGED <<svars, hvars, fvars>>

\* 56-59: `except Exception` swallows whatever the wait raises, a timeout and a
\* failed read of current_url alike.
FlippaWaitSwallows(how) == how \in {"timeout", "error"}

\* 51-59: the wait sees the URL leave "login", times out, or a read of
\* current_url fails.
FlippaWait(r) ==
    /\ pc[r] = "fl_wait"
    /\ \E how \in {"ok", "timeout", "error"} :
          /\ verif' = [verif EXCEPT ![r] = how]
          /\ IF how = "ok" \/ FlippaWaitSwallows(how)
             THEN /\ pc' = [pc EXCEPT ![r] = "fl_cookies"]
                  /\ UNCHANGED outcome
             ELSE /\ pc' = [pc EXCEPT ![r] = "raised"]
                  /\ outcome' = [outcome EXCEPT ![r] =
                        DriverError(IF how = "timeout" THEN "TimeoutException"
                                    ELSE "WebDriverException")]
    /\ used' = [used EXCEPT ![r] = @ \cup {DriverOf(r)}]
    /\ UNCHANGED <<loads, site, creates, drv, cookieHdr, quitRaised, resp, nextId, started, quits, jar>>
    /\ UNCHANGED <<svars, hvars, fvars>>

\* 62-63: cookies = driver.get_cookies(); return cookies
FlippaGetCookies(r) ==
    /\ pc[r] = "fl_cookies"
    /\ \/ /\ pc' = [pc EXCEPT ![r] = "returned"]
          /\ outcome' = [outcome EXCEPT ![r] = Returned(jar[DriverOf(r)])]
       \/ /\ pc' = [pc EXCEPT ![r] = "raised"]
          /\ outcome' = [outcome EXCEPT ![r] = DriverError("WebDriverException")]
    /\ used' = [used EXCEPT ![r] = @ \cup {DriverOf(r)}]
    /\ UNCHANGED <<loads, site, creates, drv, verif, cookieHdr, quitRaised, resp, nextId, started, quits, jar>>
    /\ UNCHANGED <<svars, hvars, fvars>>

FlippaLogin(r) ==
    \/ FlippaGet(r)
    \/ FlippaFindEmail(r)
    \/ FlippaFindPassword(r)
    \/ FlippaTypeEmail(r)
    \/ FlippaTypePassword(r)
    \/ FlippaFindSubmit(r)
    \/ FlippaClick(r)
    \/ FlippaWait(r)
    \/ FlippaGetCookies(r)

-----------------------------------------------------------------------------
(* SmergersLogin.login (app/logins/smergers.py)                             *)

\* How one _safe_click, 316-328, ends: the native click lands ("native"); it
\* is intercepted (or the element is stale, not interactable, the wait times
\* out) and the scripted click lands ("js"); both fail and it returns False
\* ("fail"); or the native click raises an exception that the except clause at
\* 322 does not name, which leaves _safe_click ("raise").
ClickOutcomes == {"native", "js", "fail", "raise"}

\* What a click that landed does to the page.
Effects == {"none", "reveal", "google"}

IsGoogle(l) == l.google \/ l.gtitle

\* The statements of login(), 85-116, in program order, and the order with each
\* field typed as soon as it is located.
After_typing_early(step) ==
    CASE step = "get" -> "wait_body"
      [] step = "wait_body" -> "google1"
      [] step = "google1" -> "ensure"
      [] step = "ensure" -> "find_email"
      [] step = "find_email" -> "type_email"
      [] step = "type_email" -> "find_pass"
      [] step = "find_pass" -> "type_pass"
      [] step = "type_pass" -> "submit"
      [] step = "submit" -> "wait_logged"
      [] step = "wait_logged" -> "google2"
      [] step = "google2" -> "cookies"

After(step) ==
    CASE step = "get" -> "wait_body"
      [] step = "wait_body" -> "google1"
      [] step = "google1" -> "ensure"
      [] step = "ensure" -> "find_email"
      [] step = "find_email" -> "find_pass"
      [] step = "find_pass" -> "type_email"
      [] step = "type_email" -> "type_pass"
      [] step = "type_pass" -> "submit"
      [] step = "submit" -> "wait_logged"
      [] step = "wait_logged" -> "google2"
      [] step = "google2" -> "cookies"

\* Control moves on inside login().
Go(next) ==
    /\ spc' = next
    /\ UNCHANGED <<sresult, failedIn>>

\* An exception leaves login(); helper is the function it was raised in.
Raise(err, helper) ==
    /\ sresult' = err
    /\ spc' = "done"
    /\ failedIn' = helper

\* The polling loops measure time in sleeps of 0.2 s, up to their deadline:
\* what lies beyond the deadline is all the same to them.
MaxRounds == 2

Tick(t) == IF t < MaxRounds THEN t + 1 ELSE t

\* `while time.time() < end`, 234, 251, 299, and the loop without a deadline.
TimeLeft_always(t) == TRUE

TimeLeft(t) == t < MaxRounds

\* WebDriverWait(driver, timeout).until(...), 293, 393: polls until its timeout.
UntilTimeLeft(t) == t < MaxRounds

\* The page after a click that landed on it.
ClickEffect(eff) ==
    /\ loc' = IF eff = "google" THEN GoogleSignIn ELSE loc
    /\ modal' = IF eff = "google" THEN FALSE ELSE modal
    /\ pwdShown' = CASE eff = "reveal" -> TRUE
                     [] eff = "google" -> FALSE
                     [] OTHER -> pwdShown
    /\ onGoogle' = (onGoogle \/ (eff = "google" /\ probes = 0))

\* _safe_get, 285-290: driver.get, retried once after a WebDriverException.
\* The page that loads is the site's choice; a load may also leave no document.
SafeGet ==
    /\ spc = "get"
    /\ \/ \E n \in {1, 2}, l \in Locations \cup {Blank}, m \in BOOLEAN, p \in BOOLEAN :
             /\ gets' = n
             /\ loc' = l
             /\ modal' = (m /\ l # Blank)
             /\ pwdShown' = (p /\ l # Blank)
             /\ onGoogle' = l.google
             /\ log' = Append(log, "navigated")
             /\ Go(After("get"))
       \/ /\ gets' = 2
          /\ Raise(DriverError("WebDriverException"), "_safe_get")
          /\ UNCHANGED <<loc, modal, pwdShown, onGoogle, log>>
    /\ UNCHANGED <<sjar, seenAtStart, waited, tabCalls, clicked, clicks, probes,
                   pwdAtStart, sverif, elapsed>>
    /\ UNCHANGED <<evars, hvars, fvars>>

\* _wait_present(driver, "body", timeout=25), 292-295: one poll of the wait.
\* The TimeoutException of WebDriverWait.until is not caught.
WaitBody ==
    /\ spc = "wait_body"
    /\ IF loc # Blank
       THEN Go(After("wait_body")) /\ elapsed' = 0
       ELSE IF UntilTimeLeft(elapsed)
            THEN elapsed' = Tick(elapsed) /\ UNCHANGED <<spc, sresult, failedIn>>
            ELSE /\ Raise(Error("TimeoutException", "body_not_present", FALSE, FALSE),
                          "_wait_present")
                 /\ elapsed' = 0
    /\ UNCHANGED <<loc, modal, pwdShown, sjar, gets, seenAtStart, waited, tabCalls,
                   clicked, clicks, probes, pwdAtStart, onGoogle, sverif, log>>
    /\ UNCHANGED <<evars, hvars, fvars>>

\* _fail_if_google, 275-283
FailIfGoogle(at) ==
    /\ spc = at
    /\ IF IsGoogle(loc)
       THEN Raise(Error("RuntimeError", "oauth_redirect", TRUE, TRUE), "_fail_if_google")
       ELSE Go(After(at))
    /\ UNCHANGED <<loc, modal, pwdShown, sjar, gets, seenAtStart, waited, tabCalls,
                   clicked, clicks, probes, pwdAtStart, onGoogle, sverif, elapsed, log>>
    /\ UNCHANGED <<evars, hvars, fvars>>

\* 91
FailIfGoogleBefore == FailIfGoogle("google1")

\* _has_visible_password, 221-230: True when a displayed and enabled password
\* input is found; a driver call that raises on the way (find_elements, or
\* is_displayed on a stale element) makes it False.
HasVisiblePassword(fault) == pwdShown /\ ~fault

\* What a _has_visible_password call leaves in the log.
Probed(seen) == IF seen THEN "password_seen" ELSE "password_not_seen"

\* 122-123: `if self._has_visible_password(driver): return`, and the variant
\* without the early return.
EarlyReturn_never(seen) == FALSE

EarlyReturn(seen) == seen

\* _ensure_login_tab, 120-123
EnsureStart ==
    /\ spc = "ensure"
    /\ \E fault \in BOOLEAN :
          /\ seenAtStart' = HasVisiblePassword(fault)
          /\ log' = Append(log, Probed(HasVisiblePassword(fault)))
          /\ Go(IF EarlyReturn(HasVisiblePassword(fault)) THEN After("ensure") ELSE "wait_any")
    /\ pwdAtStart' = pwdShown
    /\ UNCHANGED <<loc, modal, pwdShown, sjar, gets, waited, tabCalls, clicked, clicks,
                   probes, onGoogle, sverif, elapsed>>
    /\ UNCHANGED <<evars, hvars, fvars>>

\* The modal, a form or an input is in the document: the form surface of the
\* page is its modal and its password input.
AnyPresent == modal \/ pwdShown

\* 126: one round of _wait_any_present(...), 297-306. A find_elements call that
\* raises counts as nothing found; the loop returns when something is found and
\* when its time is up alike.
WaitAnyPresent ==
    /\ spc = "wait_any"
    /\ waited' = TRUE
    /\ IF TimeLeft(elapsed)
       THEN \E fault \in BOOLEAN :
               IF AnyPresent /\ ~fault
               THEN Go("tab_click") /\ elapsed' = 0
               ELSE elapsed' = Tick(elapsed) /\ UNCHANGED <<spc, sresult, failedIn>>
       ELSE Go("tab_click") /\ elapsed' = 0
    /\ UNCHANGED <<loc, modal, pwdShown, sjar, gets, seenAtStart, tabCalls, clicked,
                   clicks, probes, pwdAtStart, onGoogle, sverif, log>>
    /\ UNCHANGED <<evars, hvars, fvars>>

\* The positions of the element list e, in document order, that satisfy a
\* filter.
RECURSIVE Indices(_, _, _)
Indices(e, from, xpathOnly) ==
    IF from > Len(e) THEN <<>>
    ELSE IF xpathOnly /\ ~MatchesLoginXPath(e[from]) THEN Indices(e, from + 1, xpathOnly)
         ELSE <<from>> \o Indices(e, from + 1, xpathOnly)

\* 151-163: the candidates among the a/button/li/div elements e of the page.
\* Scoped to the modal they are all of the modal's elements (none without a
\* modal); otherwise the XPath matches of the document (none when
\* find_elements raises). The elements of a page with a modal are the modal's.
Candidates(e, scope_modal_only, xfault) ==
    IF scope_modal_only
    THEN IF modal THEN Indices(e, 1, FALSE) ELSE <<>>
    ELSE IF xfault THEN <<>> ELSE Indices(e, 1, TRUE)

NoClick == [hit |-> 0, raised |-> FALSE]

\* 178-181 and 188-195: click the first element that passes the filter and
\* whose _safe_click returns True. Every _safe_click may end in each of
\* ClickOutcomes, so a scan has a set of possible results: the element it
\* clicked (hit), or the exception that left it (raised). An exception leaving
\* _safe_click leaves the first loop, and is swallowed (`continue`) in the
\* fallback loop.
RECURSIVE ScanClick(_, _, _)
ScanClick(e, idxs, fallback) ==
    IF idxs = <<>> THEN {NoClick}
    ELSE LET i == Head(idxs)
             passes == IF fallback THEN is_exact_login(e[i]) ELSE is_login_tab(e[i])
         IN  IF ~passes THEN ScanClick(e, Tail(idxs), fallback)
             ELSE {[hit |-> i, raised |-> FALSE]}
                  \cup (IF fallback THEN {} ELSE {[hit |-> 0, raised |-> TRUE]})
                  \cup ScanClick(e, Tail(idxs), fallback)

\* _click_login_tab, 149-199: the first loop over the candidates, then, when
\* it clicked nothing, the fallback over the modal's elements.
click_login_tab(e, scope_modal_only, xfault) ==
    LET first == ScanClick(e, Candidates(e, scope_modal_only, xfault), FALSE)
    IN  { r \in first : r.hit # 0 \/ r.raised }
        \cup (IF modal THEN ScanClick(e, Indices(e, 1, FALSE), TRUE) ELSE {NoClick})

\* One _click_login_tab call and the sleep after it. The elements e are what
\* the page holds when the call looks for them.
TabClick(at, scope_modal_only, next) ==
    /\ spc = at
    /\ tabCalls' = tabCalls + 1
    /\ \E e \in ElSeqs, xfault \in BOOLEAN :
       \E res \in click_login_tab(e, scope_modal_only, xfault) :
          IF res.raised
          THEN /\ Raise(DriverError("WebDriverException"), "_safe_click")
               /\ UNCHANGED <<loc, modal, pwdShown, onGoogle, clicked, clicks>>
          ELSE IF res.hit # 0
          THEN /\ \E eff \in Effects : ClickEffect(eff)
               /\ clicks' = Append(clicks, [text |-> e[res.hit].text,
                                            by |-> IF scope_modal_only THEN "tab_modal" ELSE "tab"])
               /\ clicked' = IF scope_modal_only THEN clicked ELSE TRUE
               /\ Go(next)
          ELSE /\ clicked' = IF scope_modal_only THEN clicked ELSE FALSE
               /\ Go(next)
               /\ UNCHANGED <<loc, modal, pwdShown, onGoogle, clicks>>
    /\ UNCHANGED <<sjar, gets, seenAtStart, waited, probes, pwdAtStart, sverif, elapsed, log>>
    /\ UNCHANGED <<evars, hvars, fvars>>

\* 129-132
TabClickFirst == TabClick("tab_click", FALSE, "recheck1")

\* 135-136: `if not self._has_visible_password(driver): if not clicked:`, and
\* the variant that tries again whatever the first call clicked.
SecondAttempt_whatever(seen, didClick) == ~seen

SecondAttempt(seen, didClick) == ~seen /\ ~didClick

\* 135-139: without a visible password, and when nothing was clicked, click
\* again scoped to the modal.
Recheck1 ==
    /\ spc = "recheck1"
    /\ \E fault \in BOOLEAN :
          /\ log' = Append(log, Probed(HasVisiblePassword(fault)))
          /\ Go(IF SecondAttempt(HasVisiblePassword(fault), clicked)
                THEN "tab_click_modal" ELSE "recheck2")
    /\ UNCHANGED <<loc, modal, pwdShown, sjar, gets, seenAtStart, waited, tabCalls,
                   clicked, clicks, probes, pwdAtStart, onGoogle, sverif, elapsed>>
    /\ UNCHANGED <<evars, hvars, fvars>>

\* 138-139
TabClickModal == TabClick("tab_click_modal", TRUE, "recheck2")

\* 142-147: still no visible password: RuntimeError with url and title
Recheck2 ==
    /\ spc = "recheck2"
    /\ \E fault \in BOOLEAN :
          /\ log' = Append(log, Probed(HasVisiblePassword(fault)))
          /\ IF ~HasVisiblePassword(fault)
             THEN Raise(Error("RuntimeError", "form_not_revealed", TRUE, TRUE),
                        "_ensure_login_tab")
             ELSE Go(After("ensure"))
    /\ UNCHANGED <<loc, modal, pwdShown, sjar, gets, seenAtStart, waited, tabCalls,
                   clicked, clicks, probes, pwdAtStart, onGoogle, sverif, elapsed>>
    /\ UNCHANGED <<evars, hvars, fvars>>

\* How one polling round of _find_visible_in can end on the field's selectors:
\* the ends of the scan over every content the container may hold. A field
\* that is not shown is not found.
RoundOutcomes(canFind) ==
    { k \in RoundKinds : canFind \/ k # "found" }

\* One round of _find_visible_in, 232-247: the first displayed and enabled
\* element of the container (97, 203-205: the displayed modal, or the driver)
\* is returned; after a round that finds none the loop sleeps; when its time
\* is up, TimeoutException with a fixed message.
FindVisibleIn(at, canFind, field) ==
    /\ spc = at
    /\ probes' = IF elapsed = 0 THEN probes + 1 ELSE probes
    /\ IF TimeLeft(elapsed)
       THEN \E k \in RoundOutcomes(canFind) :
               CASE k = "found" ->
                       /\ Go(After(at))
                       /\ elapsed' = 0
                       /\ log' = Append(log, field \o "_located")
                 [] k = "raise" ->
                       /\ Raise(DriverError("WebDriverException"), "_find_visible_in")
                       /\ elapsed' = 0
                       /\ UNCHANGED log
                 [] k = "none" ->
                       /\ elapsed' = Tick(elapsed)
                       /\ UNCHANGED <<spc, sresult, failedIn, log>>
       ELSE /\ Raise(Error("TimeoutException", "no_visible_element", FALSE, FALSE),
                     "_find_visible_in")
            /\ elapsed' = 0
            /\ UNCHANGED log
    /\ UNCHANGED <<loc, modal, pwdShown, sjar, gets, seenAtStart, waited, tabCalls,
                   clicked, clicks, pwdAtStart, onGoogle, sverif>>
    /\ UNCHANGED <<evars, hvars, fvars>>

\* 99
FindEmail == FindVisibleIn("find_email", TRUE, "email")

\* 100: a shown password input may lie outside the container
FindPassword == FindVisibleIn("find_pass", pwdShown, "password")

\* _focus_and_type, 345-362: _safe_click for focus (an exception leaving it is
\* not caught), best-effort focus and wait, _clear_input (330-343, which
\* swallows whatever clear() and the key sequences raise), then
\* el.send_keys(text), which is not guarded.
FocusAndType(at, field) ==
    /\ spc = at
    /\ \E oc \in ClickOutcomes, sent \in BOOLEAN :
          /\ clicks' = IF oc \in {"native", "js"}
                       THEN Append(clicks, [text |-> <<field>>, by |-> "field"])
                       ELSE clicks
          /\ IF oc = "raise"
             THEN Raise(DriverError("WebDriverException"), "_safe_click") /\ UNCHANGED log
             ELSE IF ~sent
             THEN Raise(DriverError("WebDriverException"), "_focus_and_type") /\ UNCHANGED log
             ELSE Go(After(at)) /\ log' = Append(log, field \o "_typed")
    /\ UNCHANGED <<loc, modal, pwdShown, sjar, gets, seenAtStart, waited, tabCalls,
                   clicked, probes, pwdAtStart, onGoogle, sverif, elapsed>>
    /\ UNCHANGED <<evars, hvars, fvars>>

\* 102
TypeEmail == FocusAndType("type_email", "email")

\* 103
TypePassword == FocusAndType("type_pass", "password")

\* What the site does with a submitted form: it stays on the login page, it
\* opens the account (the modal goes, the session cookie may be set), or it
\* hands over to Google.
Submitted(how) ==
    /\ loc' = CASE how = "stay" -> loc
                [] how = "home" -> SmergersHome
                [] how = "oauth" -> GoogleOAuth
    /\ modal' = IF how = "home" THEN FALSE ELSE modal
    /\ \E cs \in {<<>>, <<SessionCookie(1)>>} : sjar' = cs

\* Whether the page is another one after the step.
PageMoved == IF loc' # loc \/ modal' # modal THEN "page_changed" ELSE "page_unchanged"

\* 105-108: pass_el.send_keys(Keys.ENTER). Only when it raises does the except
\* clause go on to the submit control.
SendEnter ==
    /\ spc = "submit"
    /\ \/ \* 107: the keystroke is delivered
          /\ \E how \in {"stay", "home", "oauth"} : Submitted(how)
          /\ log' = log \o <<"enter_sent", PageMoved>>
          /\ Go(After("submit"))
       \/ \* 108: send_keys raised
          /\ log' = Append(log, "enter_raised")
          /\ Go("submit_click")
          /\ UNCHANGED <<loc, modal, sjar>>
    /\ UNCHANGED <<pwdShown, gets, seenAtStart, waited, tabCalls, clicked, clicks, probes,
                   pwdAtStart, onGoogle, sverif, elapsed>>
    /\ UNCHANGED <<evars, hvars, fvars>>

\* 110: one round of _click_first_visible_in, 249-265. The first displayed and
\* enabled submit control is clicked with _safe_click and its result returned;
\* an exception leaving _safe_click is swallowed (`continue`); without a
\* control the loop sleeps, and returns False when its time is up. login()
\* ignores the result.
SubmitFallback ==
    /\ spc = "submit_click"
    /\ IF TimeLeft(elapsed)
       THEN \E ctl \in BOOLEAN, oc \in ClickOutcomes :
               IF ctl /\ oc \in {"native", "js"}
               THEN /\ \E how \in {"stay", "home", "oauth"} : Submitted(how)
                    /\ clicks' = Append(clicks, [text |-> <<"submit">>, by |-> "submit"])
                    /\ log' = log \o <<"submit_clicked", PageMoved>>
                    /\ Go(After("submit"))
                    /\ elapsed' = 0
               ELSE IF ctl /\ oc = "fail"
               THEN /\ log' = Append(log, "submit_not_clicked")
                    /\ Go(After("submit"))
                    /\ elapsed' = 0
                    /\ UNCHANGED <<loc, modal, sjar, clicks>>
               ELSE /\ elapsed' = Tick(elapsed)
                    /\ UNCHANGED <<spc, sresult, failedIn, loc, modal, sjar, clicks, log>>
       ELSE /\ log' = Append(log, "submit_not_clicked")
            /\ Go(After("submit"))
            /\ elapsed' = 0
            /\ UNCHANGED <<loc, modal, sjar, clicks>>
    /\ UNCHANGED <<pwdShown, gets, seenAtStart, waited, tabCalls, clicked, probes,
                   pwdAtStart, onGoogle, sverif>>
    /\ UNCHANGED <<evars, hvars, fvars>>

\* ok(d), 365-390: no modal and no "/login" in the URL; or no "/login" and
\* "smergers.com" in the URL; or a displayed logout/dashboard/account/profile
\* link.
LoggedInSignal(anchor) ==
    \/ ~modal /\ ~loc.login
    \/ ~loc.login /\ loc.smergers
    \/ anchor

\* 392-395: `except TimeoutException: pass`, and the variant without the
\* except clause.
WaitSwallows_nothing(how) == FALSE

WaitSwallows(how) == how = "timeout"

\* _wait_logged_in, 364-395: one poll of the wait. It ends with the signal
\* seen, with TimeoutException when its time is up, or with the exception of a
\* failed read of current_url, which until() does not ignore.
WaitLoggedIn ==
    /\ spc = "wait_logged"
    /\ \E anchor \in BOOLEAN, fault \in BOOLEAN :
          LET how == IF fault THEN "error"
                     ELSE IF LoggedInSignal(anchor) THEN "ok"
                     ELSE IF UntilTimeLeft(elapsed) THEN "poll"
                     ELSE "timeout"
          IN  IF how = "poll"
              THEN /\ elapsed' = Tick(elapsed)
                   /\ UNCHANGED <<spc, sresult, failedIn, sverif, log>>
              ELSE /\ elapsed' = 0
                   /\ sverif' = how
                   /\ IF how = "ok" \/ WaitSwallows(how)
                      THEN /\ Go(After("wait_logged"))
                           /\ log' = Append(log, IF how = "ok" THEN "verified" ELSE "unverified")
                      ELSE /\ Raise(Error(IF how = "timeout" THEN "TimeoutException"
                                          ELSE "WebDriverException",
                                          IF how = "timeout" THEN "wait_timeout" ELSE "driver",
                                          FALSE, FALSE), "_wait_logged_in")
                           /\ UNCHANGED log
    /\ UNCHANGED <<loc, modal, pwdShown, sjar, gets, seenAtStart, waited, tabCalls,
                   clicked, clicks, probes, pwdAtStart, onGoogle>>
    /\ UNCHANGED <<evars, hvars, fvars>>

\* 115
FailIfGoogleAfter == FailIfGoogle("google2")

\* 116: return driver.get_cookies()
GetCookies ==
    /\ spc = "cookies"
    /\ \/ /\ sresult' = Returned(sjar)
          /\ spc' = "done"
          /\ log' = Append(log, "cookies_read")
          /\ UNCHANGED failedIn
       \/ /\ Raise(DriverError("WebDriverException"), "login")
          /\ UNCHANGED log
    /\ UNCHANGED <<loc, modal, pwdShown, sjar, gets, seenAtStart, waited, tabCalls,
                   clicked, clicks, probes, pwdAtStart, onGoogle, sverif, elapsed>>
    /\ UNCHANGED <<evars, hvars, fvars>>

SmergersLogin ==
    \/ SafeGet
    \/ WaitBody
    \/ FailIfGoogleBefore
    \/ EnsureStart
    \/ WaitAnyPresent
    \/ TabClickFirst
    \/ Recheck1
    \/ TabClickModal
    \/ Recheck2
    \/ FindEmail
    \/ FindPassword
    \/ TypeEmail
    \/ TypePassword
    \/ SendEnter
    \/ SubmitFallback
    \/ WaitLoggedIn
    \/ FailIfGoogleAfter
    \/ GetCookies

-----------------------------------------------------------------------------
(* SpecLogin: provider.login called on a driver the caller created          *)

InitLogin ==
    /\ \/ \* FlippaLogin().login(driver, u, p)
          /\ pc = [r \in Reqs |-> IF r = 1 THEN "fl_get" ELSE "idle"]
          /\ spc = "idle"
       \/ \* SmergersLogin().login(driver, u, p)
          /\ pc = [r \in Reqs |-> "idle"]
          /\ spc = "get"
    /\ site = [r \in Reqs |-> "flippa"]
    /\ creates = [r \in Reqs |-> 0]
    /\ drv = [r \in Reqs |-> IF r = 1 THEN 1 ELSE 0]
    /\ outcome = [r \in Reqs |-> NoOutcome]
    /\ verif = [r \in Reqs |-> "none"]
    /\ cookieHdr = [r \in Reqs |-> <<>>]
    /\ quitRaised = [r \in Reqs |-> FALSE]
    /\ resp = [r \in Reqs |-> NoResp]
    /\ loads = [r \in Reqs |-> 0]
    /\ used = [r \in Reqs |-> {}]
    /\ nextId = 2
    /\ started = {1}
    /\ quits = [d \in DriverIds |-> 0]
    /\ jar = [d \in DriverIds |-> <<>>]
    /\ loc = Blank
    /\ modal = FALSE
    /\ pwdShown = FALSE
    /\ sjar = <<>>
    /\ gets = 0
    /\ seenAtStart = FALSE
    /\ waited = FALSE
    /\ tabCalls = 0
    /\ clicked = FALSE
    /\ clicks = <<>>
    /\ probes = 0
    /\ pwdAtStart = FALSE
    /\ onGoogle = FALSE
    /\ sverif = "none"
    /\ sresult = NoOutcome
    /\ failedIn = "none"
    /\ elapsed = 0
    /\ log = <<>>
    /\ HeaderIdle
    /\ FindIdle

NextLogin == FlippaLogin(1) \/ SmergersLogin

SpecLogin == InitLogin /\ [][NextLogin]_vars

-----------------------------------------------------------------------------
(* Properties of the login providers (SpecLogin)                            *)

FlippaEnded == pc[1] \in {"returned", "raised"}

TabClicks == { i \in 1..Len(clicks) : clicks[i].by \in {"tab", "tab_modal"} }

C5_GoogleBeforeFieldsRaisesOAuth ==
    (spc = "done" /\ onGoogle) =>
        /\ sresult.kind = "error"
        /\ sresult.what = "oauth_redirect"
        /\ probes = 0

\* C6: every element a _click_login_tab call clicked has the label "login"
\* exactly (trimmed, case-insensitive).
C6_OnlyExactLoginLabelClicked ==
    \A i \in TabClicks : NormText(clicks[i].text) = <<"login">>

C8_FieldTimeoutEmbedsUrlAndTitle ==
    (spc = "done" /\ sresult.kind = "error" /\ sresult.what = "no_visible_element") =>
        (sresult.url /\ sresult.title)

\* Where a milestone first stands in the log (0: nowhere).
Pos(ev) ==
    LET at == { i \in 1..Len(log) : log[i] = ev }
    IN  IF at = {} THEN 0 ELSE CHOOSE i \in at : \A j \in at : i <= j

\* Milestone b was reached only after milestone a.
Before(a, b) == Pos(b) # 0 => (Pos(a) # 0 /\ Pos(a) < Pos(b))

\* C11: a login raises only because surface discovery ran out of strategies
\* (the LOGIN tab revealed no form), a required field was not located, or an
\* OAuth redirect was detected; waiting for the page body, typing into a
\* located field, submitting and reading the cookies never make it raise. (A
\* navigation that failed twice propagates and is not counted here.)
C11_RaisesOnlyForThreeReasons ==
    (spc = "done" /\ sresult.kind = "error" /\ failedIn # "_safe_get") =>
        sresult.what \in {"form_not_revealed", "no_visible_element", "oauth_redirect"}

\* FlippaLogin.login ended because its driver.get raised.
FlippaNavFailed ==
    /\ pc[1] = "raised"
    /\ verif[1] = "none"
    /\ outcome[1] = DriverError("WebDriverException")

\* C12: in both providers the login URL is loaded at most twice, a login that
\* ends because navigation failed has loaded it twice (the first failure was
\* retried once), and nothing else of the protocol ran after the two failures.
C12_NavigationRetriedOnce ==
    /\ gets <= 2
    /\ failedIn = "_safe_get" => (gets = 2 /\ log = <<>> /\ clicks = <<>>)
    /\ loads[1] <= 2
    /\ FlippaNavFailed => loads[1] = 2

C16_FallbackWhenEnterChangesNothing ==
    (/\ Pos("enter_sent") # 0
     /\ log[Pos("enter_sent") + 1] = "page_unchanged"
     /\ sverif # "none")
        => (Pos("submit_clicked") # 0 \/ Pos("submit_not_clicked") # 0)

\* C17: no exception that left login() was raised in _safe_click or in
\* _clear_input.
C17_ClickAndClearNeverFail ==
    failedIn \notin {"_safe_click", "_clear_input"}

-----------------------------------------------------------------------------
(* SpecLoginLive: the login call run to its end. login() is one thread of   *)
(* blocking calls, each of which returns or raises, so a step that can be   *)
(* taken is taken.                                                          *)

SpecLoginLive == InitLogin /\ [][NextLogin]_vars /\ WF_vars(NextLogin)

\* C15: every login attempt ends: it returns cookies or raises.
C15_LoginTerminates == <>(spc = "done" \/ FlippaEnded)

\* A login that polled for the modal, for a field and ended when the field
\* loop ran out of time.
C15_Witness ==
    /\ spc = "done"
    /\ waited
    /\ failedIn = "_find_visible_in"
    /\ sresult.what = "no_visible_element"

-----------------------------------------------------------------------------
(* login(), main.py 38-48                                                   *)

\* 40: cookie_header = cookies_to_header(cookies)
ComputeHeader(r) ==
    /\ pc[r] = "returned"
    /\ cookieHdr' = [cookieHdr EXCEPT ![r] = cookies_to_header(outcome[r].cookies)]
    /\ pc' = [pc EXCEPT ![r] = "computed"]
    /\ UNCHANGED <<loads, used, site, creates, drv, outcome, verif, quitRaised, resp, nextId, started, quits, jar>>
    /\ UNCHANGED <<svars, hvars, fvars>>

\* 41-42: the finally block runs driver.quit() on every way out of the try
\* block. The variant quits only after the try block completed.
QuitsOn_success(p) == p = "computed"

QuitsOn(p) == p \in {"computed", "raised"}

\* What leaves login() when driver.quit() raised inside the finally block: the
\* new exception replaces a pending one and discards the computed result.
AfterQuit(out, hdr, raised) ==
    IF raised
    THEN [status |-> 500, err |-> DriverError("WebDriverException")]
    ELSE IF out.kind = "error"
         THEN [status |-> 500, err |-> out]
         ELSE [status |-> 200, cookies |-> out.cookies, cookie_header |-> hdr]

\* 41-48: finally driver.quit(), then the response or the exception.
Finally(r) ==
    /\ pc[r] \in {"computed", "raised"}
    /\ quits' = IF QuitsOn(pc[r]) THEN [quits EXCEPT ![DriverOf(r)] = @ + 1] ELSE quits
    /\ used' = IF QuitsOn(pc[r]) THEN [used EXCEPT ![r] = @ \cup {DriverOf(r)}] ELSE used
    /\ \E raised \in BOOLEAN :
          /\ quitRaised' = [quitRaised EXCEPT ![r] = raised /\ QuitsOn(pc[r])]
          /\ resp' = [resp EXCEPT ![r] =
                AfterQuit(outcome[r], cookieHdr[r], raised /\ QuitsOn(pc[r]))]
    /\ pc' = [pc EXCEPT ![r] = "done"]
    /\ UNCHANGED <<loads, site, creates, drv, outcome, verif, cookieHdr, nextId, started, jar>>
    /\ UNCHANGED <<svars, hvars, fvars>>

Next ==
    \E r \in Reqs :
        \/ CheckSite(r)
        \/ CreateDriver(r)
        \/ FlippaLogin(r)
        \/ ComputeHeader(r)
        \/ Finally(r)

Spec == Init /\ [][Next]_vars

-----------------------------------------------------------------------------
(* Properties of the endpoint                                               *)

\* C1: the browser session create_driver returned to a request is never quit
\* twice, and it has been quit exactly once when the request has finished,
\* whether provider.login returned cookies or raised.
C1_QuitExactlyOnce ==
    \A r \in Reqs :
        drv[r] # 0 =>
            /\ quits[drv[r]] <= 1
            /\ (pc[r] = "done" => quits[drv[r]] = 1)

\* Two finished requests, one whose login raised and one whose login returned
\* cookies, each with its session quit once.
C1_Witness ==
    \E r1, r2 \in Reqs :
        /\ pc[r1] = "done" /\ outcome[r1].kind = "error" /\ quits[drv[r1]] = 1
        /\ pc[r2] = "done" /\ outcome[r2].kind = "cookies" /\ quits[drv[r2]] = 1

\* C2: a request whose site is not the registered "flippa" never calls
\* create_driver and ends with status 400.
C2_UnknownSiteNoDriver ==
    \A r \in Reqs :
        site[r] # "flippa" =>
            /\ creates[r] = 0
            /\ drv[r] = 0
            /\ pc[r] \in {"recv", "done"}
            /\ (pc[r] = "done" => resp[r].status = 400)

\* A finished request for "smergers", a provider class that is not registered.
C2_Witness ==
    \E r \in Reqs :
        /\ site[r] = "smergers"
        /\ pc[r] = "done"
        /\ resp[r].status = 400
        /\ creates[r] = 0

\* C3: a failure of driver.quit() in the finally block does not leave the
\* endpoint: the response is the outcome provider.login produced.
C3_QuitFailureDoesNotPropagate ==
    \A r \in Reqs :
        (pc[r] = "done" /\ quitRaised[r]) =>
            IF outcome[r].kind = "cookies"
            THEN resp[r].status = 200 /\ resp[r].cookies = outcome[r].cookies
            ELSE resp[r].status = 500 /\ resp[r].err = outcome[r]

\* C13: in every interleaving of the requests, the requests hold different
\* browsers; a request has called driver methods (quit() among them) on no
\* browser but the one it created, so that a browser with cookies or a quit()
\* call got them from its own request; and the cookies a request got and
\* answers with are those the site set in its own browser.
C13_RequestsIsolated ==
    /\ \A r \in Reqs :
          /\ used[r] \subseteq ({drv[r]} \ {0})
          /\ drv[r] # 0 => \A q \in Reqs \ {r} : drv[q] # drv[r]
          /\ outcome[r].kind = "cookies" =>
                outcome[r].cookies \in {<<>>, <<SessionCookie(drv[r])>>}
          /\ resp[r].status = 200 => resp[r].cookies = outcome[r].cookies
    /\ \A d \in DriverIds :
          (jar[d] # <<>> \/ quits[d] > 0) =>
              /\ jar[d] \in {<<>>, <<SessionCookie(d)>>}
              /\ \E r \in Reqs : drv[r] = d /\ d \in used[r]

\* Two requests in flight at once, each with the session cookie of its own
\* browser: one has its cookies, the other is about to read them.
C13_Witness ==
    \E r1, r2 \in Reqs :
        /\ r1 # r2
        /\ pc[r1] = "computed"
        /\ outcome[r1].cookies = <<SessionCookie(drv[r1])>>
        /\ pc[r2] = "fl_cookies"
        /\ jar[drv[r2]] = <<SessionCookie(drv[r2])>>
        /\ used[r1] = {drv[r1]}
        /\ used[r2] = {drv[r2]}

\* C19: once every request has been answered, every browser that was started
\* has been quit.
C19_NoBrowserLeaked ==
    (\A r \in Reqs : pc[r] = "done") => \A d \in started : quits[d] >= 1

-----------------------------------------------------------------------------
(* SpecHeader                                                               *)

InitHeader ==
    /\ EndpointIdle
    /\ SmergersIdle
    /\ FindIdle
    /\ hpc = "input"
    /\ cookies \in CookieSeqs
    /\ parts = <<>>
    /\ header = <<>>
    /\ parsed = <<>>
    /\ header2 = <<>>

Serialize ==
    /\ hpc = "input"
    /\ parts' = BuildParts(cookies)
    /\ header' = cookies_to_header(cookies)
    /\ hpc' = "serialized"
    /\ UNCHANGED <<cookies, parsed, header2>>
    /\ UNCHANGED <<evars, svars, fvars>>

Parse ==
    /\ hpc = "serialized"
    /\ parsed' = ParseHeader(header)
    /\ hpc' = "parsed"
    /\ UNCHANGED <<cookies, parts, header, header2>>
    /\ UNCHANGED <<evars, svars, fvars>>

Reserialize ==
    /\ hpc = "parsed"
    /\ header2' = cookies_to_header(parsed)
    /\ hpc' = "reserialized"
    /\ UNCHANGED <<cookies, parts, header, parsed>>
    /\ UNCHANGED <<evars, svars, fvars>>

NextHeader == Serialize \/ Parse \/ Reserialize

SpecHeader == InitHeader /\ [][NextHeader]_vars

-----------------------------------------------------------------------------
(* Properties of cookies_to_header                                          *)

\* The input positions holding a cookie with both a name and a value.
KeptIdx == { i \in 1..Len(cookies) : cookies[i].name # None /\ cookies[i].value # None }

RankOf(i) == Cardinality({ j \in KeptIdx : j <= i })

PieceLen(i) == Len(cookies[i].name) + 1 + Len(cookies[i].value)

RECURSIVE SumPieces(_)
SumPieces(S) ==
    IF S = {} THEN 0
    ELSE LET i == CHOOSE x \in S : TRUE
         IN  PieceLen(i) + Len(Separator) + SumPieces(S \ {i})

\* Where the pair of input position i starts in the header.
StartOf(i) == 1 + SumPieces({ j \in KeptIdx : j < i })

HasSep(s) == s # None /\ FindSub(s, Separator) # 0

\* C9: the header is the `name=value` pairs of the cookies that have both a
\* name and a value, each once, in input order, separated by "; "; an input
\* without such cookies gives the empty string.
C9_HeaderListsPairsInOrder ==
    hpc \in {"serialized", "parsed", "reserialized"} =>
        /\ Len(parts) = Cardinality(KeptIdx)
        /\ \A i \in KeptIdx :
              /\ parts[RankOf(i)] = cookies[i].name \o <<"=">> \o cookies[i].value
              /\ SubSeq(header, StartOf(i), StartOf(i) + PieceLen(i) - 1)
                    = cookies[i].name \o <<"=">> \o cookies[i].value
              /\ RankOf(i) < Cardinality(KeptIdx) =>
                    SubSeq(header, StartOf(i) + PieceLen(i),
                           StartOf(i) + PieceLen(i) + 1) = <<";", " ">>
        /\ Len(header) = IF KeptIdx = {} THEN 0
                         ELSE SumPieces(KeptIdx) - Len(Separator)
        /\ (KeptIdx = {} => header = <<>>)

\* Two different cookies, both kept, the first with an empty value.
C9_Witness ==
    /\ hpc = "serialized"
    /\ Len(cookies) = 2
    /\ KeptIdx = {1, 2}
    /\ cookies[1] # cookies[2]
    /\ cookies[1].value = <<>>
    /\ header # <<>>

\* C10 as stated: parsing the header and serializing again gives the same
\* string for every cookie sequence.
C10_RoundTripAlways ==
    hpc = "reserialized" => header2 = header

\* C10 amended: the round trip gives the same string whenever no name or value
\* of a serialized cookie contains the separator "; " (names and values that
\* contain "=" or are empty included).
C10_RoundTripWithoutSeparator ==
    (/\ hpc = "reserialized"
     /\ \A i \in KeptIdx : ~HasSep(cookies[i].name) /\ ~HasSep(cookies[i].value))
        => header2 = header

\* A round trip of two cookies, one with "=" in its value and one with an
\* empty name.
C10_Witness ==
    /\ hpc = "reserialized"
    /\ Len(cookies) = 2
    /\ KeptIdx = {1, 2}
    /\ \A i \in KeptIdx : ~HasSep(cookies[i].name) /\ ~HasSep(cookies[i].value)
    /\ cookies[1].value = <<"x", "=", "y">>
    /\ cookies[2].name = <<>>
    /\ header2 = header
    /\ header # <<>>

-----------------------------------------------------------------------------
(* SpecFind: one _find_visible_in call on a container                       *)

InitFind ==
    /\ EndpointIdle
    /\ SmergersIdle
    /\ HeaderIdle
    /\ fpc = "poll"
    /\ fclock = 0
    /\ fscan = <<>>
    /\ fret = Pending

\* 234-246: one round of the loop. What the container answers to the
\* selectors is the page's choice, anew in every round; a round that finds no
\* element sleeps.
FindRound ==
    /\ fpc = "poll"
    /\ TimeLeft(fclock)
    /\ \E c \in Contents :
          LET r == ScanSels(c, 1)
          IN  IF r.kind = "none"
              THEN /\ fclock' = Tick(fclock)
                   /\ UNCHANGED <<fpc, fscan, fret>>
              ELSE /\ fpc' = IF r.kind = "found" THEN "returned" ELSE "raised"
                   /\ fscan' = c
                   /\ fret' = r
                   /\ UNCHANGED fclock
    /\ UNCHANGED <<evars, svars, hvars>>

\* 247: raise TimeoutException(...)
FindTimeout ==
    /\ fpc = "poll"
    /\ ~TimeLeft(fclock)
    /\ fpc' = "timeout"
    /\ fret' = [kind |-> "timeout"]
    /\ UNCHANGED <<fclock, fscan>>
    /\ UNCHANGED <<evars, svars, hvars>>

NextFind == FindRound \/ FindTimeout

SpecFind == InitFind /\ [][NextFind]_vars

-----------------------------------------------------------------------------
(* Properties of _find_visible_in                                           *)

\* The element at position i of the answer to selector s, in the round that
\* ended the call, was displayed and enabled.
WasUsable(s, i) ==
    /\ fscan[s].els[i].displayed = "true"
    /\ fscan[s].els[i].enabled

\* C18: the element _find_visible_in returns was displayed and enabled in the
\* round that returned it, and no element the container gave for an earlier
\* selector, or earlier for the same selector, was displayed and enabled in
\* that round.
C18_FirstVisibleEnabledWins ==
    fpc = "returned" =>
        /\ fret.sel \in 1..Len(Selectors)
        /\ ~fscan[fret.sel].raised
        /\ fret.idx \in 1..Len(fscan[fret.sel].els)
        /\ WasUsable(fret.sel, fret.idx)
        /\ \A s \in 1..Len(Selectors) :
              \A i \in 1..Len(fscan[s].els) :
                  (s < fret.sel \/ (s = fret.sel /\ i < fret.idx)) => ~WasUsable(s, i)

\* A call that returned, after a round that found nothing, the second element
\* of the second selector: the first selector gave a hidden and a disabled
\* element, the second a stale one first.
C18_Witness ==
    /\ fpc = "returned"
    /\ fclock > 0
    /\ fret.sel = 2
    /\ fret.idx = 2
    /\ ~fscan[1].raised
    /\ Len(fscan[1].els) = 2
    /\ fscan[1].els[1].displayed = "false"
    /\ fscan[1].els[2] = [displayed |-> "true", enabled |-> FALSE]
    /\ fscan[2].els[1].displayed = "stale"

====
